---- MODULE Spec2Model ----
(***************************************************************************)
(* Model of librypt-entropy (src/lib.rs): the EntropySource trait and the  *)
(* Entropy<LENGTH> container with its two constructors, try_generate and   *)
(* generate.  Callers run on threads; every call has its own stack frame   *)
(* holding the local `bytes` array that is lent to the provider.           *)
(***************************************************************************)
EXTENDS Integers, Sequences, FiniteSets

\* ---------------------------------------------------------------- bounds
\* Largest LENGTH a caller instantiates Entropy<LENGTH> with.
MaxLength == 2
\* Byte values are 0..MaxByte (u8 abstracted to a small range around 0).
MaxByte == 1

\* Calling threads, and the error values a provider can report
\* (EntropySourceError is provider-defined and opaque to the core).
Threads == {"t1", "t2"}
Errors == {"E1", "E2"}

Byte == 0..MaxByte
Lengths == 0..MaxLength

VARIABLES
    pc,      \* per thread: position of the caller
    op,      \* per thread: the constructor that was called
    len,     \* per thread: LENGTH of the current call
    mem,     \* the memory of each frame's local `bytes` (stale between calls)
    pres,    \* per thread: what read_bytes returned
    calls,   \* per thread: read_bytes invocations of the current construction
    seen,    \* per thread: buffer content at the moment read_bytes was invoked
    left,    \* per thread: buffer content at the moment read_bytes returned
    tret,    \* per thread: value returned by try_generate
    ret,     \* per thread: value the caller of generate obtained
    held,    \* per thread: the Entropy value the caller owns
    origin   \* per thread: how the owned Entropy value came to exist

vars == <<pc, op, len, mem, pres, calls, seen, left, tret, ret, held, origin>>

\* ---------------------------------------------------------------- values
NoResult == [tag |-> "None", bytes |-> <<>>, err |-> "-"]
Ok(b) == [tag |-> "Ok", bytes |-> b, err |-> "-"]
Err(e) == [tag |-> "Err", bytes |-> <<>>, err |-> e]

ProviderNone == [tag |-> "None", err |-> "-"]
ProviderOk == [tag |-> "Ok", err |-> "-"]
ProviderErr(e) == [tag |-> "Err", err |-> e]

NoEntropy == [live |-> FALSE, bytes |-> <<>>]
Entropy(b) == [live |-> TRUE, bytes |-> b]

NoOrigin == [by |-> "none", bytes |-> <<>>]

\* ------------------------------------------------------------- functions
\* `let mut bytes = [0u8; LENGTH];` : a fresh array of LENGTH zero bytes.
AllocBytesUninit(t, L) ==
    [i \in 1..L |-> IF i <= Len(mem[t]) THEN mem[t][i] ELSE 0]

AllocBytes(t, L) == [i \in 1..L |-> 0]

\* The local `bytes` lives in the frame of the calling thread.
BufferOfShared(t) == "t1"

BufferOf(t) == t

\* The match of try_generate on the provider's result.
TryGenerateResultRecoded(r, buf) ==
    IF r.tag = "Ok" THEN Ok(buf) ELSE Err("E1")

TryGenerateResultTruncated(r, buf) ==
    IF r.tag = "Ok"
    THEN Ok([i \in 1..Len(buf) |-> IF i = Len(buf) THEN 0 ELSE buf[i]])
    ELSE Err(r.err)

TryGenerateResultLeaky(r, buf) ==
    IF r.tag = "Ok" THEN Ok(buf) ELSE [Err(r.err) EXCEPT !.bytes = buf]

TryGenerateResult(r, buf) ==
    IF r.tag = "Ok" THEN Ok(buf) ELSE Err(r.err)

\* Result::unwrap as generate uses it: the Ok payload, or a panic.
UnwrapOrDefault(r, L) ==
    IF r.tag = "Ok"
    THEN [panic |-> FALSE, val |-> Entropy(r.bytes)]
    ELSE [panic |-> FALSE, val |-> Entropy([i \in 1..L |-> 0])]

UnwrapReversed(r, L) ==
    IF r.tag = "Ok"
    THEN [panic |-> FALSE,
          val |-> Entropy([i \in 1..Len(r.bytes) |-> r.bytes[Len(r.bytes) + 1 - i]])]
    ELSE [panic |-> TRUE, val |-> NoEntropy]

UnwrapAlwaysPanics(r, L) == [panic |-> TRUE, val |-> NoEntropy]

Unwrap(r, L) ==
    IF r.tag = "Ok"
    THEN [panic |-> FALSE, val |-> Entropy(r.bytes)]
    ELSE [panic |-> TRUE, val |-> NoEntropy]

\* ------------------------------------------------------------------ Init
Init ==
    /\ pc = [t \in Threads |-> "idle"]
    /\ op = [t \in Threads |-> "none"]
    /\ len = [t \in Threads |-> 0]
    /\ mem = [t \in Threads |-> <<>>]
    /\ pres = [t \in Threads |-> ProviderNone]
    /\ calls = [t \in Threads |-> 0]
    /\ seen = [t \in Threads |-> <<>>]
    /\ left = [t \in Threads |-> <<>>]
    /\ tret = [t \in Threads |-> NoResult]
    /\ ret = [t \in Threads |-> NoEntropy]
    /\ held = [t \in Threads |-> NoEntropy]
    /\ origin = [t \in Threads |-> NoOrigin]

\* --------------------------------------------------------------- actions
\* A caller enters try_generate::<L> (directly, or through generate::<L>):
\* the frame's `bytes` is allocated and zeroed.
Call(t, o, L) ==
    /\ pc[t] = "idle"
    /\ pc' = [pc EXCEPT ![t] = "call"]
    /\ op' = [op EXCEPT ![t] = o]
    /\ len' = [len EXCEPT ![t] = L]
    /\ mem' = [mem EXCEPT ![BufferOf(t)] = AllocBytes(t, L)]
    /\ UNCHANGED <<pres, calls, seen, left, tret, ret, held, origin>>

\* source.read_bytes(&mut bytes): the provider overwrites the first k bytes
\* of the buffer it was lent with bytes of its choice and returns r.
ReadBytes(t, k, w, r) ==
    /\ pc[t] = "call"
    /\ k <= Len(mem[BufferOf(t)])
    /\ LET before == mem[BufferOf(t)]
           after == [i \in 1..Len(before) |-> IF i <= k THEN w[i] ELSE before[i]]
       IN /\ seen' = [seen EXCEPT ![t] = before]
          /\ mem' = [mem EXCEPT ![BufferOf(t)] = after]
          /\ left' = [left EXCEPT ![t] = after]
    /\ pres' = [pres EXCEPT ![t] = r]
    /\ calls' = [calls EXCEPT ![t] = @ + 1]
    /\ pc' = [pc EXCEPT ![t] = "match"]
    /\ UNCHANGED <<op, len, tret, ret, held, origin>>

\* try_generate matches on the provider's result and returns.
Match(t) ==
    /\ pc[t] = "match"
    /\ LET r == TryGenerateResult(pres[t], mem[BufferOf(t)])
       IN /\ tret' = [tret EXCEPT ![t] = r]
          /\ IF op[t] = "generate"
             THEN /\ pc' = [pc EXCEPT ![t] = "unwrap"]
                  /\ UNCHANGED <<held, origin>>
             ELSE /\ pc' = [pc EXCEPT ![t] = "done"]
                  /\ held' = [held EXCEPT ![t] =
                        IF r.tag = "Ok" THEN Entropy(r.bytes) ELSE NoEntropy]
                  /\ origin' = [origin EXCEPT ![t] =
                        IF r.tag = "Ok" THEN [by |-> "fill", bytes |-> left[t]]
                        ELSE NoOrigin]
    /\ UNCHANGED <<op, len, mem, pres, calls, seen, left, ret>>

\* generate unwraps what try_generate returned.
UnwrapStep(t) ==
    /\ pc[t] = "unwrap"
    /\ LET u == Unwrap(tret[t], len[t])
       IN IF u.panic
          THEN /\ pc' = [pc EXCEPT ![t] = "panicked"]
               /\ UNCHANGED <<ret, held, origin>>
          ELSE /\ pc' = [pc EXCEPT ![t] = "done"]
               /\ ret' = [ret EXCEPT ![t] = u.val]
               /\ held' = [held EXCEPT ![t] = u.val]
               /\ origin' = [origin EXCEPT ![t] = [by |-> "fill", bytes |-> left[t]]]
    /\ UNCHANGED <<op, len, mem, pres, calls, seen, left, tret>>

\* The caller's scope ends: the result and any container are dropped.  The
\* frame's memory is not cleared (no zeroing on drop).
ScopeExit(t) ==
    /\ pc[t] = "done"
    /\ pc' = [pc EXCEPT ![t] = "idle"]
    /\ op' = [op EXCEPT ![t] = "none"]
    /\ len' = [len EXCEPT ![t] = 0]
    /\ pres' = [pres EXCEPT ![t] = ProviderNone]
    /\ calls' = [calls EXCEPT ![t] = 0]
    /\ seen' = [seen EXCEPT ![t] = <<>>]
    /\ left' = [left EXCEPT ![t] = <<>>]
    /\ tret' = [tret EXCEPT ![t] = NoResult]
    /\ ret' = [ret EXCEPT ![t] = NoEntropy]
    /\ held' = [held EXCEPT ![t] = NoEntropy]
    /\ origin' = [origin EXCEPT ![t] = NoOrigin]
    /\ UNCHANGED mem

\* `pub bytes`: a caller that owns a container assigns to one of its bytes.
FieldWrite(t, i, v) ==
    /\ pc[t] = "done"
    /\ held[t].live
    /\ i \in 1..Len(held[t].bytes)
    /\ held[t].bytes[i] # v
    /\ held' = [held EXCEPT ![t].bytes[i] = v]
    /\ UNCHANGED <<pc, op, len, mem, pres, calls, seen, left, tret, ret, origin>>

\* `pub struct` with only `pub` fields: a caller writes Entropy { bytes: b }.
StructLiteral(t, L, b) ==
    /\ pc[t] = "idle"
    /\ pc' = [pc EXCEPT ![t] = "done"]
    /\ op' = [op EXCEPT ![t] = "literal"]
    /\ len' = [len EXCEPT ![t] = L]
    /\ held' = [held EXCEPT ![t] = Entropy(b)]
    /\ origin' = [origin EXCEPT ![t] = [by |-> "literal", bytes |-> b]]
    /\ UNCHANGED <<mem, pres, calls, seen, left, tret, ret>>

\* ---------------------------------------------------------------- specs
ProviderResults == {ProviderOk} \cup {ProviderErr(e) : e \in Errors}

Next ==
    \/ \E t \in Threads, o \in {"try_generate", "generate"}, L \in Lengths :
          Call(t, o, L)
    \/ \E t \in Threads, k \in Lengths, w \in [1..MaxLength -> Byte],
          r \in ProviderResults : ReadBytes(t, k, w, r)
    \/ \E t \in Threads : Match(t)
    \/ \E t \in Threads : UnwrapStep(t)
    \/ \E t \in Threads : ScopeExit(t)

\* The two constructors only.
Spec == Init /\ [][Next]_vars

NextPub ==
    \/ Next
    \/ \E t \in Threads, i \in 1..MaxLength, v \in Byte : FieldWrite(t, i, v)
    \/ \E t \in Threads, L \in Lengths : \E b \in [1..L -> Byte] :
          StructLiteral(t, L, b)

\* Everything the public interface offers, field access included.
SpecPub == Init /\ [][NextPub]_vars

\* --------------------------------------------------------------- claims
Returned(t) == pc[t] \in {"unwrap", "done", "panicked"} /\ op[t] \in {"try_generate", "generate"}

\* C1: when read_bytes returns the error e, try_generate returns Err(e) with
\* the very same e, and the caller of try_generate gets no container.
C1_ErrorTransparency ==
    \A t \in Threads :
        (Returned(t) /\ pres[t].tag = "Err") =>
            /\ tret[t].tag = "Err"
            /\ tret[t].err = pres[t].err
            /\ (op[t] = "try_generate" => ~held[t].live)

C1_Witness ==
    \E t \in Threads :
        /\ pc[t] = "done" /\ op[t] = "try_generate"
        /\ pres[t] = ProviderErr("E2") /\ tret[t].err = "E2"

\* C2: when read_bytes succeeds, try_generate returns Ok with a container of
\* exactly LENGTH bytes that equal, position by position, what the provider
\* left in the buffer (LENGTH = 0 included).
C2_OkContent ==
    \A t \in Threads :
        (Returned(t) /\ pres[t].tag = "Ok") =>
            /\ tret[t].tag = "Ok"
            /\ Len(tret[t].bytes) = len[t]
            /\ \A i \in 1..len[t] : tret[t].bytes[i] = left[t][i]

C2_Witness ==
    \E t, u \in Threads :
        /\ pc[t] = "done" /\ op[t] = "try_generate" /\ pres[t].tag = "Ok"
        /\ len[t] >= 2 /\ tret[t].bytes[1] # tret[t].bytes[2]
        /\ pc[u] = "done" /\ op[u] = "try_generate" /\ pres[u].tag = "Ok"
        /\ len[u] = 0 /\ tret[u].bytes = <<>>

\* C3: two failing fills that report the same error give the caller of
\* try_generate the same result, whatever bytes were written to the buffers.
C3_NoPartialExposure ==
    \A t, u \in Threads :
        (/\ Returned(t) /\ Returned(u)
         /\ pres[t].tag = "Err" /\ pres[u].tag = "Err"
         /\ pres[t].err = pres[u].err) => tret[t] = tret[u]

C3_Witness ==
    \E t, u \in Threads :
        /\ pc[t] = "done" /\ op[t] = "try_generate"
        /\ pc[u] = "done" /\ op[u] = "try_generate"
        /\ pres[t].tag = "Err" /\ pres[u] = pres[t]
        /\ left[t] # left[u] /\ len[t] = len[u]

\* C4: when read_bytes fails, generate panics and its caller never obtains a
\* container.
C4_GeneratePanics ==
    \A t \in Threads :
        (/\ op[t] = "generate" /\ pres[t].tag = "Err"
         /\ pc[t] \notin {"match", "unwrap"}) =>
            /\ pc[t] = "panicked"
            /\ ret[t] = NoEntropy
            /\ ~held[t].live

C4_Witness ==
    \E t \in Threads :
        /\ pc[t] = "panicked" /\ op[t] = "generate"
        /\ pres[t].tag = "Err" /\ len[t] >= 1

\* C5: on success generate returns exactly the container try_generate
\* returned in Ok, so a generate call and a try_generate call whose providers
\* behaved identically yield the same bytes.
C5_Equivalence ==
    /\ \A t \in Threads :
          (pc[t] = "done" /\ op[t] = "generate") =>
              tret[t].tag = "Ok" /\ ret[t] = Entropy(tret[t].bytes)
    /\ \A t, u \in Threads :
          (/\ pc[t] = "done" /\ op[t] = "generate"
           /\ pc[u] = "done" /\ op[u] = "try_generate"
           /\ pres[t].tag = "Ok" /\ pres[u].tag = "Ok"
           /\ len[t] = len[u] /\ left[t] = left[u]) =>
              ret[t].live /\ tret[u].tag = "Ok" /\ ret[t].bytes = tret[u].bytes

C5_Witness ==
    \E t, u \in Threads :
        /\ pc[t] = "done" /\ op[t] = "generate"
        /\ pc[u] = "done" /\ op[u] = "try_generate"
        /\ pres[t].tag = "Ok" /\ pres[u].tag = "Ok"
        /\ len[t] >= 2 /\ len[u] = len[t] /\ left[t] = left[u]
        /\ ret[t].bytes[1] # ret[t].bytes[2]

\* C6: once read_bytes has returned, try_generate can return and returns a
\* value (Ok or Err); a thread panics only inside generate and only when the
\* provider failed.
C6_PanicOnlyInGenerate ==
    \A t \in Threads :
        /\ pc[t] = "match" => ENABLED Match(t)
        /\ Returned(t) => tret[t].tag \in {"Ok", "Err"}
        /\ pc[t] = "panicked" => (op[t] = "generate" /\ pres[t].tag = "Err")

C6_Witness ==
    \E t, u \in Threads :
        /\ pc[t] = "done" /\ op[t] = "try_generate" /\ pres[t].tag = "Err"
        /\ pc[u] = "panicked" /\ op[u] = "generate"

\* C7: a live container always holds exactly the LENGTH bytes written by the
\* successful fill that constructed it.
C7_Immutable ==
    \A t \in Threads :
        (held[t].live /\ origin[t].by = "fill") =>
            /\ Len(held[t].bytes) = len[t]
            /\ held[t].bytes = origin[t].bytes

\* C8: a container exists only as the result of try_generate or generate
\* after a successful read_bytes.
C8_OnlyFromProvider ==
    \A t \in Threads :
        held[t].live =>
            /\ origin[t].by = "fill"
            /\ op[t] \in {"try_generate", "generate"}
            /\ pres[t].tag = "Ok"

\* C9: a construction invokes read_bytes exactly once, on a buffer of exactly
\* LENGTH zero bytes, and never a second time whatever the outcome.
C9_SingleFillOnZeroedBuffer ==
    \A t \in Threads :
        /\ calls[t] <= 1
        /\ pc[t] = "call" =>
              /\ calls[t] = 0
              /\ mem[BufferOf(t)] = [i \in 1..len[t] |-> 0]
        /\ (pc[t] \in {"match", "unwrap", "done", "panicked"}
              /\ op[t] \in {"try_generate", "generate"}) =>
              /\ calls[t] = 1
              /\ Len(seen[t]) = len[t]
              /\ \A i \in 1..len[t] : seen[t][i] = 0

C9_Witness ==
    \E t \in Threads :
        /\ pc[t] = "done" /\ op[t] = "try_generate" /\ pres[t].tag = "Err"
        /\ calls[t] = 1 /\ len[t] >= 2
        /\ \A i \in 1..len[t] : seen[t][i] = 0 /\ left[t][i] # 0

\* C10: under every interleaving each construction works on its own buffer:
\* between the provider's return and the match the buffer still holds what
\* the provider left for this call, and the result a thread obtains is the
\* bytes or the error of its own read_bytes call.
C10_Isolation ==
    \A t \in Threads :
        /\ pc[t] = "match" => mem[BufferOf(t)] = left[t]
        /\ (Returned(t) /\ pres[t].tag = "Ok") => tret[t] = Ok(left[t])
        /\ (Returned(t) /\ pres[t].tag = "Err") => tret[t] = Err(pres[t].err)

C10_Witness ==
    \E t, u \in Threads :
        /\ t # u
        /\ pc[t] = "match" /\ pc[u] = "match"
        /\ len[t] >= 1 /\ len[u] >= 1
        /\ left[t] # left[u] /\ pres[t] # pres[u]

====
